---- MODULE Spec2Model ----
(***************************************************************************)
(* Model of sgkind-utils, src/status.rs: the StatusCode value type, its    *)
(* validated constructors, the canonical reason table and the renderings.  *)
(*                                                                         *)
(* The type is a pure value type, so the state machine is a caller: an     *)
(* input `src` is fixed in the initial state, constructors are applied to  *)
(* it (in any order, any number of times) and leave their Result in        *)
(* `result`; the observers (as_u16, canonical_reason, is_success, Display, *)
(* Debug) are applied to a successfully built value and leave their output *)
(* in `out`.  `call` names the operation that ran last.                    *)
(***************************************************************************)
EXTENDS Integers, Sequences, FiniteSets, TLC

VARIABLES src, call, result, held, out

vars == <<src, call, result, held, out>>

---------------------------------------------------------------------------
(* Bounds of the explored input space.                                     *)

\* longest byte sequence handed to from_bytes / from_str
MaxLen == 6
\* the decimal texts "00000" .. ZeroPad5(MaxText) are handed to the parsers
MaxText == 13400

\* u16::MAX and the modulus of u16 / u8 arithmetic
U16Max == 65535
U16Mod == 65536
U8Mod == 256
\* b'0'
Byte0 == 48

---------------------------------------------------------------------------
(* Values.                                                                 *)

\* pub struct StatusCode(u16)
StatusCode(n) == [inner |-> n]

\* InvalidStatusCode::new(): a marker without payload
InvalidStatusCode == [_priv |-> <<>>]

\* Result<StatusCode, InvalidStatusCode>; Panic is an aborted call
Ok(v) == [kind |-> "Ok", val |-> v]
Err(e) == [kind |-> "Err", err |-> e]
Panic == [kind |-> "Panic"]

\* Option<&'static str>
Some(p) == [some |-> TRUE, val |-> p]
None == [some |-> FALSE]

\* nothing returned yet / no value held / nothing observed yet
NoResult == [kind |-> "NoResult"]
NoValue == [kind |-> "NoValue"]
NoOut == [kind |-> "NoOut"]

---------------------------------------------------------------------------
(* The status_codes! invocation: (num, konst, phrase) in source order.     *)

\* the table with the phrases of two neighbouring rows exchanged
status_codes_swapped ==
  << <<0, "OK", "Ok">>,
     <<10001, "CLIENT_ERROR", "Client Error">>,
     <<10100, "REGISTER_FAILED", "Register Failed">>,
     <<10101, "NOT_AGREE_PRIVACY", "Did Not Agree to the Privacy Agreement">>,
     <<10102, "COUNTRY_OR_REGION_NOT_ALLOWED", "Country or Region not allowed">>,
     <<10110, "USERNAME_FAILED", "Username Failed">>,
     <<10111, "USERNAME_EXISTS", "Username Already Exists">>,
     <<10112, "USERNAME_CONTAINS_SENSITIVE_WORD", "Username Contains Sensitive Word">>,
     <<10113, "USERNAME_CONTAINS_SPECIAL_CHAR", "Username Contains Special Character">>,
     <<10120, "PASSWORD_FAILED", "Password Failed">>,
     <<10121, "PASSWORD_TO_SHORT", "Password is to WEAK">>,
     <<10122, "PASSWORD_TO_WEAK", "Password is To Short">>,
     <<10130, "VERIFICATION_CODE_FAILED", "Verification Code Failed">>,
     <<10131, "SMS_VERIFICATION_CODE_FAILED", "Sms Verification Code Failed">>,
     <<10132, "EMAIL_VERIFICATION_CODE_FAILED", "Email Verification Code Failed">>,
     <<10133, "VOICE_VERIFICATION_CODE_FAILED", "Voice Verification Code Failed">> >>

status_codes ==
  << <<0, "OK", "Ok">>,
     <<10001, "CLIENT_ERROR", "Client Error">>,
     <<10100, "REGISTER_FAILED", "Register Failed">>,
     <<10101, "NOT_AGREE_PRIVACY", "Did Not Agree to the Privacy Agreement">>,
     <<10102, "COUNTRY_OR_REGION_NOT_ALLOWED", "Country or Region not allowed">>,
     <<10110, "USERNAME_FAILED", "Username Failed">>,
     <<10111, "USERNAME_EXISTS", "Username Already Exists">>,
     <<10112, "USERNAME_CONTAINS_SENSITIVE_WORD", "Username Contains Sensitive Word">>,
     <<10113, "USERNAME_CONTAINS_SPECIAL_CHAR", "Username Contains Special Character">>,
     <<10120, "PASSWORD_FAILED", "Password Failed">>,
     <<10121, "PASSWORD_TO_SHORT", "Password is To Short">>,
     <<10122, "PASSWORD_TO_WEAK", "Password is to WEAK">>,
     <<10130, "VERIFICATION_CODE_FAILED", "Verification Code Failed">>,
     <<10131, "SMS_VERIFICATION_CODE_FAILED", "Sms Verification Code Failed">>,
     <<10132, "EMAIL_VERIFICATION_CODE_FAILED", "Email Verification Code Failed">>,
     <<10133, "VOICE_VERIFICATION_CODE_FAILED", "Voice Verification Code Failed">> >>

KonstNames == {status_codes[i][2] : i \in DOMAIN status_codes}

\* pub const $konst: StatusCode = StatusCode($num);
Konst(name) ==
  LET i == CHOOSE j \in DOMAIN status_codes : status_codes[j][2] = name
  IN  StatusCode(status_codes[i][1])

OK == Konst("OK")

\* fn canonical_reason(num: u16): the match takes the first arm that fits
canonical_reason_num(num) ==
  LET hits == {j \in DOMAIN status_codes : status_codes[j][1] = num}
  IN  IF hits = {} THEN None
      ELSE LET i == CHOOSE j \in hits : \A k \in hits : j <= k
           IN  Some(status_codes[i][3])

---------------------------------------------------------------------------
(* Constructors.                                                           *)

\* from_u16 with the bound itself refused
from_u16_ge(n) ==
  IF n >= 40000 THEN Err(InvalidStatusCode) ELSE Ok(StatusCode(n))

\* StatusCode::from_u16
from_u16(n) ==
  IF n > 40000 THEN Err(InvalidStatusCode) ELSE Ok(StatusCode(n))

\* u8::wrapping_sub
wrapping_sub(x, y) == (x - y + U8Mod) % U8Mod

\* u16 `+` and `*`: an overflow aborts a build with overflow checks and
\* wraps otherwise; checks says which build runs
Overflows(a, b, c, d, e) ==
  \/ a * 10000 > U16Max
  \/ b * 1000 > U16Max
  \/ c * 100 > U16Max
  \/ d * 10 > U16Max
  \/ a * 10000 + b * 1000 > U16Max
  \/ a * 10000 + b * 1000 + c * 100 > U16Max
  \/ a * 10000 + b * 1000 + c * 100 + d * 10 > U16Max
  \/ a * 10000 + b * 1000 + c * 100 + d * 10 + e > U16Max

\* the byte the five digit computations of from_bytes index: src[0] each time
DigitIndex(pos) == 0

\* src[i] with Rust's bounds check (i counts from 0)
InBounds(s, i) == i + 1 \in DOMAIN s

\* from_bytes with the first-digit guard off by one
from_bytes_a5(s, checks) ==
  IF Len(s) # 5 THEN Err(InvalidStatusCode)
  ELSE IF \E p \in 0..4 : ~InBounds(s, DigitIndex(p)) THEN Panic
  ELSE
    LET a == wrapping_sub(s[DigitIndex(0) + 1], Byte0)
        b == wrapping_sub(s[DigitIndex(1) + 1], Byte0)
        c == wrapping_sub(s[DigitIndex(2) + 1], Byte0)
        d == wrapping_sub(s[DigitIndex(3) + 1], Byte0)
        e == wrapping_sub(s[DigitIndex(4) + 1], Byte0)
    IN  IF a > 4 \/ b > 9 \/ c > 9 \/ d > 9 \/ e > 9
        THEN Err(InvalidStatusCode)
        ELSE IF Overflows(a, b, c, d, e) /\ checks THEN Panic
        ELSE Ok(StatusCode((a * 10000 + b * 1000 + c * 100 + d * 10 + e) % U16Mod))

\* from_bytes refusing only inputs that are too short
from_bytes_len(s, checks) ==
  IF Len(s) < 5 THEN Err(InvalidStatusCode)
  ELSE IF \E p \in 0..4 : ~InBounds(s, DigitIndex(p)) THEN Panic
  ELSE
    LET a == wrapping_sub(s[DigitIndex(0) + 1], Byte0)
        b == wrapping_sub(s[DigitIndex(1) + 1], Byte0)
        c == wrapping_sub(s[DigitIndex(2) + 1], Byte0)
        d == wrapping_sub(s[DigitIndex(3) + 1], Byte0)
        e == wrapping_sub(s[DigitIndex(4) + 1], Byte0)
    IN  IF a >= 4 \/ b > 9 \/ c > 9 \/ d > 9 \/ e > 9
        THEN Err(InvalidStatusCode)
        ELSE IF Overflows(a, b, c, d, e) /\ checks THEN Panic
        ELSE Ok(StatusCode((a * 10000 + b * 1000 + c * 100 + d * 10 + e) % U16Mod))

\* StatusCode::from_bytes
from_bytes(s, checks) ==
  IF Len(s) # 5 THEN Err(InvalidStatusCode)
  ELSE IF \E p \in 0..4 : ~InBounds(s, DigitIndex(p)) THEN Panic
  ELSE
    LET a == wrapping_sub(s[DigitIndex(0) + 1], Byte0)
        b == wrapping_sub(s[DigitIndex(1) + 1], Byte0)
        c == wrapping_sub(s[DigitIndex(2) + 1], Byte0)
        d == wrapping_sub(s[DigitIndex(3) + 1], Byte0)
        e == wrapping_sub(s[DigitIndex(4) + 1], Byte0)
    IN  IF a >= 4 \/ b > 9 \/ c > 9 \/ d > 9 \/ e > 9
        THEN Err(InvalidStatusCode)
        ELSE IF Overflows(a, b, c, d, e) /\ checks THEN Panic
        ELSE Ok(StatusCode((a * 10000 + b * 1000 + c * 100 + d * 10 + e) % U16Mod))

\* <StatusCode as FromStr>::from_str: the bytes of the string
from_str(s, checks) == from_bytes(s, checks)

\* <StatusCode as TryFrom<&str>>::try_from: t.parse()
try_from_str(t, checks) == from_str(t, checks)

\* <StatusCode as TryFrom<u16>>::try_from
try_from_u16(t) == from_u16(t)

\* <StatusCode as Default>::default
default == OK

---------------------------------------------------------------------------
(* Observers.                                                              *)

\* <u16 as From<StatusCode>>::from
u16_from(status) == status.inner

\* StatusCode::as_u16
as_u16(self) == u16_from(self)

\* StatusCode::canonical_reason
canonical_reason(self) == canonical_reason_num(self.inner)

\* is_success taking every code below the first error category as success
is_success_range(self) == self.inner < 10000

\* StatusCode::is_success
is_success(self) == self.inner = 0

\* derived PartialEq / PartialOrd / Ord on the wrapped integer
eq(a, b) == a.inner = b.inner
cmp(a, b) ==
  IF a.inner < b.inner THEN "Less"
  ELSE IF a.inner = b.inner THEN "Equal" ELSE "Greater"

DigitChar(d) ==
  CASE d = 0 -> "0" [] d = 1 -> "1" [] d = 2 -> "2" [] d = 3 -> "3"
    [] d = 4 -> "4" [] d = 5 -> "5" [] d = 6 -> "6" [] d = 7 -> "7"
    [] d = 8 -> "8" [] d = 9 -> "9"

\* the integer formatting behind {} and {:?} of a u16: decimal digits,
\* most significant first, no padding
RECURSIVE fmt_u16(_)
fmt_u16(n) ==
  IF n < 10 THEN DigitChar(n) ELSE fmt_u16(n \div 10) \o DigitChar(n % 10)

\* Option::unwrap_or
unwrap_or(o, dflt) == IF o.some THEN o.val ELSE dflt

\* Display without the separating space
Display_fmt_nospace(self) ==
  fmt_u16(u16_from(self))
    \o unwrap_or(canonical_reason(self), "<unknown status code>")

\* <StatusCode as fmt::Display>::fmt: write!(f, "{} {}", ..)
Display_fmt(self) ==
  fmt_u16(u16_from(self)) \o " "
    \o unwrap_or(canonical_reason(self), "<unknown status code>")

\* <StatusCode as fmt::Debug>::fmt
Debug_fmt(self) == fmt_u16(self.inner)

---------------------------------------------------------------------------
(* Inputs.                                                                 *)

\* the 5-character zero-padded decimal text of n, as bytes
ZeroPad5(n) ==
  << Byte0 + ((n \div 10000) % 10), Byte0 + ((n \div 1000) % 10),
     Byte0 + ((n \div 100) % 10), Byte0 + ((n \div 10) % 10), Byte0 + (n % 10) >>

\* '/', '0', '3', '4', ':' : the bytes at both edges of the two digit ranges
EdgeBytes == {47, 48, 51, 52, 58}

\* every sequence of edge bytes of length 0 .. MaxLen
ShortInputs == UNION {[1..k -> EdgeBytes] : k \in 0..MaxLen}

\* every decimal text "00000" .. ZeroPad5(MaxText)
DigitTexts == {ZeroPad5(n) : n \in 0..MaxText}

\* five bytes, one of them any byte value 0..255, the others '0' or '9'
OneFree ==
  {[s EXCEPT ![p] = x] : s \in [1..5 -> {48, 57}], p \in 1..5, x \in 0..(U8Mod - 1)}

ByteInputs == ShortInputs \cup DigitTexts \cup OneFree

\* &str holds UTF-8; of the explored byte sequences the ASCII ones are strings
IsStr(s) == \A i \in DOMAIN s : s[i] < 128

Inputs ==
  {[kind |-> "none"]}
    \cup {[kind |-> "u16", n |-> n] : n \in 0..U16Max}
    \cup {[kind |-> "bytes", b |-> s] : s \in ByteInputs}

Constructors == {"from_u16", "try_from_u16", "from_bytes", "from_str", "try_from_str"}
Parsers == {"from_bytes", "from_str", "try_from_str"}

---------------------------------------------------------------------------
(* The caller.                                                             *)

Init ==
  /\ src \in Inputs
  /\ call = "none"
  /\ result = NoResult
  /\ held = NoValue
  /\ out = NoOut

\* what the caller holds after a constructor returned r
Unwrapped(r) == IF r.kind = "Ok" THEN r.val ELSE NoValue

Returned(name, r) ==
  /\ call' = name
  /\ result' = r
  /\ held' = Unwrapped(r)
  /\ out' = NoOut
  /\ UNCHANGED src

FromU16 ==
  /\ src.kind = "u16"
  /\ Returned("from_u16", from_u16(src.n))

TryFromU16 ==
  /\ src.kind = "u16"
  /\ Returned("try_from_u16", try_from_u16(src.n))

FromBytes ==
  /\ src.kind = "bytes"
  /\ \E checks \in BOOLEAN : Returned("from_bytes", from_bytes(src.b, checks))

FromStr ==
  /\ src.kind = "bytes"
  /\ IsStr(src.b)
  /\ \E checks \in BOOLEAN : Returned("from_str", from_str(src.b, checks))

TryFromStr ==
  /\ src.kind = "bytes"
  /\ IsStr(src.b)
  /\ \E checks \in BOOLEAN : Returned("try_from_str", try_from_str(src.b, checks))

Default ==
  /\ src.kind = "none"
  /\ call' = "default"
  /\ held' = default
  /\ result' = NoResult
  /\ out' = NoOut
  /\ UNCHANGED src

UseKonst ==
  /\ src.kind = "none"
  /\ \E name \in KonstNames :
       /\ call' = name
       /\ held' = Konst(name)
  /\ result' = NoResult
  /\ out' = NoOut
  /\ UNCHANGED src

Observed(name, o) ==
  /\ held # NoValue
  /\ call' = name
  /\ out' = o
  /\ UNCHANGED <<src, result, held>>

AsU16 == held # NoValue /\ Observed("as_u16", as_u16(held))

CanonicalReason == held # NoValue /\ Observed("canonical_reason", canonical_reason(held))

IsSuccess == held # NoValue /\ Observed("is_success", is_success(held))

Display == held # NoValue /\ Observed("Display", Display_fmt(held))

Debug == held # NoValue /\ Observed("Debug", Debug_fmt(held))

Next ==
  \/ FromU16
  \/ TryFromU16
  \/ FromBytes
  \/ FromStr
  \/ TryFromStr
  \/ Default
  \/ UseKonst
  \/ AsU16
  \/ CanonicalReason
  \/ IsSuccess
  \/ Display
  \/ Debug

Spec == Init /\ [][Next]_vars

TypeOK ==
  /\ src.kind \in {"none", "u16", "bytes"}
  /\ call \in {"none", "default", "as_u16", "canonical_reason", "is_success", "Display", "Debug"}
                \cup Constructors \cup KonstNames
  /\ result.kind \in {"NoResult", "Ok", "Err", "Panic"}

---------------------------------------------------------------------------
(* Vocabulary of the properties.                                           *)

\* the last call was a parser, and the input it was given
Parsed == call \in Parsers

IsDigit(x) == x \in Byte0..(Byte0 + 9)

\* the digit a byte denotes
DigitOf(x) == x - Byte0

\* five ASCII digits, the first of them '0'..'3'
WellFormed(s) ==
  /\ Len(s) = 5
  /\ \A i \in 1..5 : IsDigit(s[i])
  /\ DigitOf(s[1]) <= 3

\* the number five digits denote, each digit read at its own position
Positional(s) ==
  DigitOf(s[1]) * 10000 + DigitOf(s[2]) * 1000 + DigitOf(s[3]) * 100
    + DigitOf(s[4]) * 10 + DigitOf(s[5])

\* the table of section 6 of the specification: code, name, phrase
Section6 ==
  { <<0, "OK", "Ok">>,
    <<10001, "CLIENT_ERROR", "Client Error">>,
    <<10100, "REGISTER_FAILED", "Register Failed">>,
    <<10101, "NOT_AGREE_PRIVACY", "Did Not Agree to the Privacy Agreement">>,
    <<10102, "COUNTRY_OR_REGION_NOT_ALLOWED", "Country or Region not allowed">>,
    <<10110, "USERNAME_FAILED", "Username Failed">>,
    <<10111, "USERNAME_EXISTS", "Username Already Exists">>,
    <<10112, "USERNAME_CONTAINS_SENSITIVE_WORD", "Username Contains Sensitive Word">>,
    <<10113, "USERNAME_CONTAINS_SPECIAL_CHAR", "Username Contains Special Character">>,
    <<10120, "PASSWORD_FAILED", "Password Failed">>,
    <<10121, "PASSWORD_TO_SHORT", "Password is To Short">>,
    <<10122, "PASSWORD_TO_WEAK", "Password is to WEAK">>,
    <<10130, "VERIFICATION_CODE_FAILED", "Verification Code Failed">>,
    <<10131, "SMS_VERIFICATION_CODE_FAILED", "Sms Verification Code Failed">>,
    <<10132, "EMAIL_VERIFICATION_CODE_FAILED", "Email Verification Code Failed">>,
    <<10133, "VOICE_VERIFICATION_CODE_FAILED", "Voice Verification Code Failed">> }

Listed(n) == \E row \in Section6 : row[1] = n

PhraseOf(n) == (CHOOSE row \in Section6 : row[1] = n)[3]

\* the decimal text of n < 100000, from its five decimal places
DecimalText(n) ==
  LET c5 == DigitChar((n \div 10000) % 10)
      c4 == DigitChar((n \div 1000) % 10)
      c3 == DigitChar((n \div 100) % 10)
      c2 == DigitChar((n \div 10) % 10)
      c1 == DigitChar(n % 10)
  IN  IF n >= 10000 THEN c5 \o c4 \o c3 \o c2 \o c1
      ELSE IF n >= 1000 THEN c4 \o c3 \o c2 \o c1
      ELSE IF n >= 100 THEN c3 \o c2 \o c1
      ELSE IF n >= 10 THEN c2 \o c1
      ELSE c1

---------------------------------------------------------------------------
(* Properties.                                                             *)

\* C1: from_u16(n) and try_from(n) succeed exactly when n <= 40000; on
\* success the value's as_u16() is n, and for n > 40000 the call returns
\* InvalidStatusCode and no StatusCode.
C1_FromU16Contract ==
  call \in {"from_u16", "try_from_u16"} =>
    IF src.n <= 40000
    THEN /\ result.kind = "Ok"
         /\ held = result.val
         /\ as_u16(held) = src.n
    ELSE /\ result = Err(InvalidStatusCode)
         /\ held = NoValue

C1_Witness ==
  /\ call = "try_from_u16"
  /\ src.n = 40000
  /\ result.kind = "Ok"
  /\ as_u16(held) = 40000

\* C2: every StatusCode obtainable through the public interface (a named
\* constant, default(), a successful from_u16 / from_bytes / from_str /
\* try_from, after any sequence of calls) wraps an integer <= 40000.
C2_RangeInvariant ==
  /\ held # NoValue => held.inner \in 0..40000
  /\ result.kind = "Ok" => result.val.inner \in 0..40000

C2_Witness ==
  /\ Parsed
  /\ result.kind = "Ok"
  /\ held.inner = 33333

\* C3: a 5-byte input of ASCII digits d0..d4 with d0 in 0..3 parses, and
\* the wrapped value is d0*10000 + d1*1000 + d2*100 + d3*10 + d4, each
\* digit read at its own position.
C3_PositionalValue ==
  (Parsed /\ WellFormed(src.b)) =>
    /\ result.kind = "Ok"
    /\ result.val.inner = Positional(src.b)

\* C4: a 5-byte input is rejected whenever its first byte is not '0'..'3'
\* or one of the bytes at positions 1..4 is not '0'..'9'.
C4_RejectsBadDigit ==
  (Parsed /\ Len(src.b) = 5 /\ ~WellFormed(src.b)) =>
    result = Err(InvalidStatusCode)

\* C5: a byte sequence whose length is not 5 (the empty one included) is
\* rejected by from_bytes, from_str and try_from, whatever its bytes.
C5_RejectsWrongLength ==
  (Parsed /\ Len(src.b) # 5) =>
    /\ result = Err(InvalidStatusCode)
    /\ held = NoValue

C5_Witness ==
  /\ call = "from_str"
  /\ Len(src.b) = 6
  /\ \A i \in 1..6 : src.b[i] = Byte0
  /\ result = Err(InvalidStatusCode)

\* C6: for n in 0..39999, from_u16(n) and the parse of the zero-padded
\* 5-character text of n both exist and are equal under ==, the ordering
\* and as_u16.
C6_ConstructorsAgree ==
  (Parsed /\ WellFormed(src.b) /\ src.b = ZeroPad5(Positional(src.b))) =>
    LET byNumber == from_u16(Positional(src.b))
    IN  /\ result.kind = "Ok"
        /\ byNumber.kind = "Ok"
        /\ eq(result.val, byNumber.val)
        /\ cmp(result.val, byNumber.val) = "Equal"
        /\ cmp(byNumber.val, result.val) = "Equal"
        /\ as_u16(result.val) = as_u16(byNumber.val)

\* C7: canonical_reason() is the phrase of the 16-entry table for the 16
\* listed codes and absent for every other code in 0..40000; each named
\* constant wraps the code for which the table holds its phrase.
C7_CanonicalReason ==
  /\ call = "canonical_reason" =>
       out = IF Listed(held.inner) THEN Some(PhraseOf(held.inner)) ELSE None
  /\ call \in KonstNames =>
       \E row \in Section6 :
         /\ row[2] = call
         /\ held.inner = row[1]
         /\ canonical_reason(held) = Some(row[3])
  /\ \A row \in Section6 : row[2] \in KonstNames

C7_Witness ==
  /\ call = "canonical_reason"
  /\ held.inner = 10122
  /\ out = Some("Password is to WEAK")

\* C8: is_success() is true exactly for the integer 0: true for OK and for
\* default(), false for 1..40000 and so for the 15 other named constants.
C8_SuccessIsZero ==
  /\ call = "is_success" => (out <=> held.inner = 0)
  /\ call = "default" => (held = StatusCode(0) /\ held = OK /\ is_success(held))
  /\ call = "OK" => is_success(held)
  /\ call \in KonstNames \ {"OK"} => (held.inner \in 1..40000 /\ ~is_success(held))

C8_Witness ==
  /\ call = "is_success"
  /\ held.inner = 10001
  /\ out = FALSE

\* C9: Display renders the decimal text of the integer, one space, then
\* the canonical phrase or "<unknown status code>"; Debug renders the
\* decimal integer alone.
C9_Rendering ==
  /\ call = "Display" =>
       /\ out = DecimalText(held.inner) \o " "
                  \o (IF Listed(held.inner) THEN PhraseOf(held.inner)
                      ELSE "<unknown status code>")
       /\ held.inner = 0 => out = "0 Ok"
       /\ held.inner = 1 => out = "1 <unknown status code>"
  /\ call = "Debug" => out = DecimalText(held.inner)

C9_Witness ==
  /\ call = "Display"
  /\ held.inner = 10111
  /\ out = "10111 Username Already Exists"

\* C10: from_bytes is total: it never panics, indexes out of bounds or
\* overflows u16; a byte below '0' wraps to a digit > 9 and is rejected;
\* when the digit checks pass the positional sum is < 65536; each call
\* ends in exactly one of a StatusCode or InvalidStatusCode.
C10_Total ==
  Parsed =>
    /\ result.kind \in {"Ok", "Err"}
    /\ result.kind = "Ok" <=> held # NoValue
    /\ (\E i \in DOMAIN src.b : src.b[i] < Byte0) => result.kind = "Err"
    /\ result.kind = "Ok" => Positional(src.b) < U16Mod

\* Supporting C10: every parser call ends in Ok or Err, never in a panic,
\* and a value it returns is below 65536 without wrapping.
FromBytesEnds ==
  Parsed =>
    /\ result.kind \in {"Ok", "Err"}
    /\ result.kind = "Ok" <=> held # NoValue
    /\ src.b # <<>> /\ src.b[1] < Byte0 => result.kind = "Err"
    /\ result.kind = "Ok" => held.inner = 11111 * DigitOf(src.b[1])

====
